---- MODULE Spec2Model ----
(***************************************************************************)
(* Model of chaoslib/control/python.py: the Python control dispatcher      *)
(* (validate_python_control, initialize_control, cleanup_control,          *)
(* apply_python_control and the internal load_func).                       *)
(*                                                                         *)
(* Python objects that can be aliased (the provider's static arguments,    *)
(* the caller's configuration and state) live in a heap: an address maps   *)
(* to a dict, a dict maps keys to atoms (strings) or to addresses.         *)
(***************************************************************************)
EXTENDS Integers, Sequences, FiniteSets, TLC

VARIABLES
  control,     \* the control descriptor the operations are called on
  modExposed,  \* hook names the control module exposes
  modSig,      \* optional parameters the module's hooks declare
  heap,        \* the objects that outlive a call
  tpl0,        \* value of the provider's arguments at construction
  ncalls,      \* operations performed so far
  last         \* the latest operation: its inputs and what it did

vars == <<control, modExposed, modSig, heap, tpl0, ncalls, last>>

\* Number of dispatcher operations a behaviour performs on one descriptor.
MaxCalls == 2

\* Python's None.
None == "None"

(***************************************************************************)
(* Heap                                                                    *)
(***************************************************************************)
TplAddr == "@tpl"
TplNestedAddr == "@tn"
CfgAddr == "@cfg"
CfgNestedAddr == "@cg"
StateAddr == "@state"

\* Addresses of objects allocated during one call, in allocation order.
TempSeq == <<"@t1", "@t2", "@t3", "@t4", "@t5", "@t6", "@t7", "@t8">>

EmptyDict == [k \in {} |-> None]

IsRef(h, v) == v \in DOMAIN h

Alloc(h) ==
  LET free == {i \in 1..Len(TempSeq) : TempSeq[i] \notin DOMAIN h}
  IN TempSeq[CHOOSE i \in free : \A j \in free : i <= j]

Put(h, a, d) == [x \in DOMAIN h \cup {a} |-> IF x = a THEN d ELSE h[x]]

SetKey(d, k, v) == [x \in DOMAIN d \cup {k} |-> IF x = k THEN v ELSE d[x]]

\* dict.update(other): keys of other overwrite keys of d
Update(d, other) ==
  [x \in DOMAIN d \cup DOMAIN other |-> IF x \in DOMAIN other THEN other[x] ELSE d[x]]

\* The value of an object as the set of its key paths ending in an atom.
RECURSIVE Flat(_, _)
Flat(h, v) ==
  IF IsRef(h, v)
  THEN IF DOMAIN h[v] = {}
       THEN {<<"{}">>}
       ELSE UNION {{<<k>> \o p : p \in Flat(h, h[v][k])} : k \in DOMAIN h[v]}
  ELSE {<<v>>}

FlatDict(h, d) == UNION {{<<k>> \o p : p \in Flat(h, d[k])} : k \in DOMAIN d}

\* copy.deepcopy on tree-shaped data
RECURSIVE DeepCopy(_, _), DeepCopyItems(_, _, _, _)
DeepCopy(h, v) ==
  IF ~IsRef(h, v)
  THEN [heap |-> h, val |-> v]
  ELSE LET a == Alloc(h)
       IN [heap |-> DeepCopyItems(Put(h, a, EmptyDict), v, a, DOMAIN h[v]),
           val |-> a]
DeepCopyItems(h, src, dst, keys) ==
  IF keys = {}
  THEN h
  ELSE LET k == CHOOSE x \in keys : TRUE
           r == DeepCopy(h, h[src][k])
       IN DeepCopyItems(Put(r.heap, dst, SetKey(r.heap[dst], k, r.val)),
                        src, dst, keys \ {k})

\* dict.copy(): a new dict whose values are shared with the original
ShallowCopy(h, v) ==
  LET a == Alloc(h) IN [heap |-> Put(h, a, h[v]), val |-> a]

(***************************************************************************)
(* Lifecycle levels and hook names                                         *)
(***************************************************************************)
Levels ==
  {"experiment-before", "experiment-after", "hypothesis-before",
   "hypothesis-after", "method-before", "method-after", "rollback-before",
   "rollback-after", "activity-before", "activity-after"}

_level_mapping ==
  [l \in Levels |->
     CASE l = "experiment-before" -> "before_experiment_control"
       [] l = "experiment-after" -> "after_experiment_control"
       [] l = "hypothesis-before" -> "before_hypothesis_control"
       [] l = "hypothesis-after" -> "after_hypothesis_control"
       [] l = "method-before" -> "before_method_control"
       [] l = "method-after" -> "after_method_control"
       [] l = "rollback-before" -> "before_rollback_control"
       [] l = "rollback-after" -> "after_rollback_control"
       [] l = "activity-before" -> "before_activity_control"
       [] l = "activity-after" -> "after_activity_control"]

\* dict.get(level): None for a level that is not a key
LevelFuncName(level) ==
  IF level \in DOMAIN _level_mapping THEN _level_mapping[level] ELSE None

LevelHooks == {_level_mapping[l] : l \in Levels}

AllHooks == LevelHooks \cup {"configure_control", "cleanup_control"}

\* Levels a caller may pass: the ten tags and one unrecognized tag.
CallerLevels == Levels \cup {"unknown-level"}

(***************************************************************************)
(* The host: module loader, the control module, the caller's stores        *)
(***************************************************************************)
\* Module paths the loader can resolve.
Installed == {"pkg.mod"}

ModulePaths == {"", "pkg.mod", "missing"}

\* importlib.import_module
ImportModule(path) ==
  IF path = "" THEN "ValueError"
  ELSE IF path \in Installed THEN "ok"
  ELSE "ModuleNotFoundError"

\* Attribute sets the control module may expose.
ExposedChoices ==
  {{}, AllHooks, {"before_activity_control"},
   AllHooks \ {"before_activity_control"},
   AllHooks \ {"configure_control", "cleanup_control"}}

\* Attribute sets of the modules that descriptors with arguments or secrets name.
DispatchExposedChoices == {AllHooks}

OptionalParams == {"secrets", "configuration", "state"}

\* Parameters every hook of the module declares besides the optional ones.
BaseParams == {"context", "x", "n"}

\* inspect.signature(func).parameters
SigParameters == BaseParams \cup modSig

\* The caller's secrets store: group name -> mapping.
SecretsRef == "@secrets"

SecretsStore ==
  [g \in {"db", "api", "other"} |->
     CASE g = "db" -> [user |-> "x"]
       [] g = "api" -> [user |-> "y", token |-> "t"]
       [] g = "other" -> [zzz |-> "q"]]

\* Lists of secret group names a provider may declare.
SecretLists ==
  {<<>>, <<"db">>, <<"db", "api">>, <<"api", "ghost", "db">>}

ContextValue == "ctx"

(***************************************************************************)
(* Control descriptors                                                     *)
(***************************************************************************)
Opt(b, k, v) == IF b THEN [x \in {k} |-> v] ELSE EmptyDict

Join(f, g) == [x \in DOMAIN f \cup DOMAIN g |-> IF x \in DOMAIN f THEN f[x] ELSE g[x]]

MkProvider(hasMod, pm, hasArgs, hasSecs, secs) ==
  Join(Opt(hasMod, "module", pm),
       Join(Opt(hasArgs, "arguments", TplAddr), Opt(hasSecs, "secrets", secs)))

MkControl(hasName, hasProv, prov, hasTop, top) ==
  Join(Opt(hasName, "name", "c1"),
       Join(Opt(hasProv, "provider", prov), Opt(hasTop, "module", top)))

\* Descriptors of every structural shape (no static arguments, no secrets).
StructuralDescriptors ==
  {MkControl(hn, hp, MkProvider(hm, pm, FALSE, FALSE, <<>>), ht, top) :
     hn \in BOOLEAN, hp \in BOOLEAN, hm \in BOOLEAN, pm \in ModulePaths,
     ht \in BOOLEAN, top \in ModulePaths}

\* Complete descriptors with every combination of arguments and secrets.
DispatchDescriptors ==
  {MkControl(TRUE, TRUE, MkProvider(TRUE, "pkg.mod", ha, hs, secs), TRUE, "pkg.mod") :
     ha \in BOOLEAN, hs \in BOOLEAN, secs \in SecretLists}

\* Static argument templates of a provider, with and without a `secrets` key.
TemplateChoices ==
  {[x |-> "${k}", n |-> TplNestedAddr],
   [x |-> "${k}", n |-> TplNestedAddr, secrets |-> "static"]}

BaseHeap ==
  [a \in {CfgAddr, CfgNestedAddr, StateAddr} |->
     CASE a = CfgAddr -> [k |-> "v1", grp |-> CfgNestedAddr]
       [] a = CfgNestedAddr -> [z |-> "v2"]
       [] a = StateAddr -> [runs |-> "r0"]]

HasKey(d, k) == k \in DOMAIN d

HasArguments(ctl) == HasKey(ctl, "provider") /\ HasKey(ctl["provider"], "arguments")

(***************************************************************************)
(* load_func                                                               *)
(***************************************************************************)
\* getattr(mod, func_name) without a default raises on a missing attribute
GetAttrNoDefault(func_name) ==
  IF func_name = None THEN [raised |-> "TypeError", func |-> None]
  ELSE IF func_name \in modExposed THEN [raised |-> "none", func |-> func_name]
  ELSE [raised |-> "AttributeError", func |-> None]

\* getattr(mod, func_name, None): the attribute name must be a string
GetAttr(func_name) ==
  IF func_name = None THEN [raised |-> "TypeError", func |-> None]
  ELSE IF func_name \in modExposed THEN [raised |-> "none", func |-> func_name]
  ELSE [raised |-> "none", func |-> None]

load_func(ctl, func_name) ==
  IF ~HasKey(ctl, "provider") \/ ~HasKey(ctl["provider"], "module")
  THEN [raised |-> "KeyError", func |-> None, loads |-> <<>>]
  ELSE LET mod_path == ctl["provider"]["module"]
           imp == ImportModule(mod_path)
       IN IF imp = "ModuleNotFoundError"
          THEN [raised |-> "none", func |-> None, loads |-> <<mod_path>>]
          ELSE IF imp # "ok"
          THEN [raised |-> imp, func |-> None, loads |-> <<mod_path>>]
          ELSE LET g == GetAttr(func_name)
               IN [raised |-> g.raised, func |-> g.func, loads |-> <<mod_path>>]

(***************************************************************************)
(* validate_python_control                                                 *)
(***************************************************************************)
MissingProviderErrorAsActivity == "InvalidActivity"

\* the exception raised for a descriptor without `provider`
MissingProviderError == "InvalidControl"

validate_python_control(ctl) ==
  IF ~HasKey(ctl, "name")
  THEN [result |-> "InvalidControl", loads |-> <<>>]
  ELSE IF ~HasKey(ctl, "provider")
  THEN [result |-> MissingProviderError, loads |-> <<>>]
  ELSE LET mod_name == IF HasKey(ctl, "module") THEN ctl["module"] ELSE None
       IN IF mod_name = None \/ mod_name = ""
          THEN [result |-> "InvalidActivity", loads |-> <<>>]
          ELSE LET imp == ImportModule(mod_name)
               IN [result |-> IF imp = "ModuleNotFoundError"
                              THEN "InvalidActivity" ELSE imp,
                   loads |-> <<mod_name>>]

(***************************************************************************)
(* Collaborators of apply_python_control                                   *)
(***************************************************************************)
\* Python truthiness of an optional mapping argument
Truthy(h, v) == v # None /\ (IsRef(h, v) => DOMAIN h[v] # {})

\* A placeholder resolves against the configuration; others are left alone.
Resolve(h, cfgV, atom) ==
  IF atom = "${k}" /\ cfgV # None /\ HasKey(h[cfgV], "k") /\ ~IsRef(h, h[cfgV]["k"])
  THEN h[cfgV]["k"]
  ELSE atom

RECURSIVE SubstInPlace(_, _, _), SubstChildren(_, _, _)
SubstInPlace(h, a, cfgV) ==
  LET d == h[a]
      h1 == Put(h, a, [k \in DOMAIN d |->
                         IF IsRef(h, d[k]) THEN d[k] ELSE Resolve(h, cfgV, d[k])])
  IN SubstChildren(h1, {d[k] : k \in {x \in DOMAIN d : IsRef(h, d[x])}}, cfgV)
SubstChildren(h, children, cfgV) ==
  IF children = {}
  THEN h
  ELSE LET c == CHOOSE x \in children : TRUE
       IN SubstChildren(SubstInPlace(h, c, cfgV), children \ {c}, cfgV)

\* chaoslib.substitute: the result has the placeholders resolved; the engine
\* either builds a new mapping or rewrites the one it was given.
substitute(h, a, cfgV, secV, mode) ==
  IF mode = "inplace"
  THEN [heap |-> SubstInPlace(h, a, cfgV), val |-> a]
  ELSE LET c == DeepCopy(h, a)
       IN [heap |-> SubstInPlace(c.heap, c.val, cfgV), val |-> c.val]

SubstModes == {"new", "inplace"}

\* secrets.get(s, {})
SecretGroup(s) == IF s \in DOMAIN SecretsStore THEN SecretsStore[s] ELSE EmptyDict

\* a merge in which the first group holding a key keeps it
RECURSIVE MergeSecretsFirstWins(_, _)
MergeSecretsFirstWins(acc, groups) ==
  IF groups = <<>>
  THEN acc
  ELSE MergeSecretsFirstWins(Update(SecretGroup(Head(groups)), acc), Tail(groups))

\* for s in provider["secrets"]: arguments["secrets"].update(secrets.get(s, {}).copy())
RECURSIVE MergeSecrets(_, _)
MergeSecrets(acc, groups) ==
  IF groups = <<>>
  THEN acc
  ELSE MergeSecrets(Update(acc, SecretGroup(Head(groups))), Tail(groups))

\* provider.get("arguments", {}).copy(): nested values stay shared
CopyArgumentsShallow(h, v) == ShallowCopy(h, v)

\* deepcopy(provider.get("arguments", {}))
CopyArguments(h, v) == DeepCopy(h, v)

\* the configuration object itself, not a copy
CopyConfigurationAlias(h, v) == [heap |-> h, val |-> v]

\* configuration.copy()
CopyConfiguration(h, v) == ShallowCopy(h, v)

(***************************************************************************)
(* The hook: code of the control module                                    *)
(***************************************************************************)
NoMut == <<"none", 0>>

\* Arguments whose objects the modelled hooks write to.
MutableArgs == {"n", "secrets", "configuration"}

RefArgs(h, kwargs) == {p \in DOMAIN kwargs \cap MutableArgs : IsRef(h, kwargs[p])}

NestedOf(h, a) == {h[a][k] : k \in {x \in DOMAIN h[a] : IsRef(h, h[a][x])}}

\* What a hook may do to what it receives: nothing, add a key to an object
\* passed as argument p (depth 0), or to the objects nested in it (depth 1).
HookMutations(h, kwargs) ==
  {NoMut} \cup {<<p, 0>> : p \in RefArgs(h, kwargs)}
          \cup {<<p, 1>> : p \in {q \in RefArgs(h, kwargs) : NestedOf(h, kwargs[q]) # {}}}

MutTargets(h, kwargs, mut) ==
  IF mut = NoMut THEN {}
  ELSE IF mut[2] = 0 THEN {kwargs[mut[1]]}
  ELSE NestedOf(h, kwargs[mut[1]])

HookMutate(h, kwargs, mut) ==
  [a \in DOMAIN h |->
     IF a \in MutTargets(h, kwargs, mut) THEN SetKey(h[a], "mut", "mut") ELSE h[a]]

\* func(**kwargs): binding fails on a keyword the function does not declare;
\* otherwise the hook runs; `passed` holds the objects it was given
CallHook(h, func, kwargs, loads, substCalls) ==
  IF ~(DOMAIN kwargs \subseteq SigParameters)
  THEN [result |-> "TypeError", reachedCall |-> TRUE, calls |-> <<>>,
        loads |-> loads, substCalls |-> substCalls, heap |-> h, passed |-> EmptyDict]
  ELSE [result |-> "ok", reachedCall |-> TRUE,
        calls |-> <<[name |-> func, kwargs |-> FlatDict(h, kwargs)]>>,
        loads |-> loads, substCalls |-> substCalls, heap |-> h, passed |-> kwargs]

(***************************************************************************)
(* apply_python_control                                                    *)
(***************************************************************************)
Raise(h, kind, loads, substCalls) ==
  [result |-> kind, reachedCall |-> FALSE, calls |-> <<>>, loads |-> loads,
   substCalls |-> substCalls, heap |-> h, passed |-> EmptyDict]

Return(h, loads) ==
  [result |-> "ok", reachedCall |-> FALSE, calls |-> <<>>, loads |-> loads,
   substCalls |-> 0, heap |-> h, passed |-> EmptyDict]

\* lines 97-100: the arguments after the copy and the substitution pass
AssembleArguments(h, provider, cfgV, secV, mode) ==
  LET a0 == IF HasKey(provider, "arguments")
            THEN CopyArguments(h, provider["arguments"])
            ELSE LET a == Alloc(h) IN [heap |-> Put(h, a, EmptyDict), val |-> a]
  IN IF Truthy(a0.heap, cfgV) \/ Truthy(a0.heap, secV)
     THEN LET s == substitute(a0.heap, a0.val, cfgV, secV, mode)
          IN [heap |-> s.heap, val |-> s.val, substCalls |-> 1]
     ELSE [heap |-> a0.heap, val |-> a0.val, substCalls |-> 0]

\* lines 103-106
InjectSecrets(h, args, provider, secV) ==
  IF HasKey(provider, "secrets") /\ "secrets" \in SigParameters
  THEN IF secV = None /\ provider["secrets"] # <<>>
       THEN [raised |-> "AttributeError", heap |-> h]
       ELSE LET m == Alloc(h)
                h1 == Put(h, m, MergeSecrets(EmptyDict, provider["secrets"]))
            IN [raised |-> "none", heap |-> Put(h1, args, SetKey(h1[args], "secrets", m))]
  ELSE [raised |-> "none", heap |-> h]

\* lines 108-109
InjectConfiguration(h, args, cfgV) ==
  IF "configuration" \in SigParameters
  THEN IF cfgV = None
       THEN [raised |-> "AttributeError", heap |-> h]
       ELSE LET c == CopyConfiguration(h, cfgV)
            IN [raised |-> "none",
                heap |-> Put(c.heap, args, SetKey(c.heap[args], "configuration", c.val))]
  ELSE [raised |-> "none", heap |-> h]

\* lines 111-112
InjectState(h, args, stateV) ==
  IF "state" \in SigParameters
  THEN Put(h, args, SetKey(h[args], "state", stateV))
  ELSE h

apply_python_control(h, ctl, level, stateV, cfgV, secV, mode) ==
  IF ~HasKey(ctl, "provider")
  THEN Raise(h, "KeyError", <<>>, 0)
  ELSE
  LET provider == ctl["provider"]
      func_name == LevelFuncName(level)
      lf == load_func(ctl, func_name)
  IN IF lf.raised # "none" THEN Raise(h, lf.raised, lf.loads, 0)
     ELSE IF lf.func = None THEN Return(h, lf.loads)
     ELSE
     LET a == AssembleArguments(h, provider, cfgV, secV, mode)
         s == InjectSecrets(a.heap, a.val, provider, secV)
     IN IF s.raised # "none" THEN Raise(s.heap, s.raised, lf.loads, a.substCalls)
        ELSE
        LET c == InjectConfiguration(s.heap, a.val, cfgV)
        IN IF c.raised # "none" THEN Raise(c.heap, c.raised, lf.loads, a.substCalls)
           ELSE
           LET h3 == InjectState(c.heap, a.val, stateV)
               kwargs == SetKey(h3[a.val], "context", ContextValue)
           IN CallHook(h3, lf.func, kwargs, lf.loads, a.substCalls)

(***************************************************************************)
(* initialize_control and cleanup_control                                  *)
(***************************************************************************)
\* func(configuration, secrets) / func(): the arguments are passed positionally
call_loaded(h, ctl, func_name, posargs) ==
  LET lf == load_func(ctl, func_name)
  IN IF lf.raised # "none" THEN Raise(h, lf.raised, lf.loads, 0)
     ELSE IF lf.func = None THEN Return(h, lf.loads)
     ELSE [result |-> "ok", reachedCall |-> TRUE,
           calls |-> <<[name |-> lf.func, kwargs |-> FlatDict(h, posargs)]>>,
           loads |-> lf.loads, substCalls |-> 0, heap |-> h, passed |-> posargs]

initialize_control(h, ctl, cfgV, secV) ==
  call_loaded(h, ctl, "configure_control", [p \in {"0", "1"} |-> IF p = "0" THEN cfgV ELSE secV])

cleanup_control(h, ctl) == call_loaded(h, ctl, "cleanup_control", EmptyDict)

(***************************************************************************)
(* State machine: a caller performs operations on one descriptor           *)
(***************************************************************************)
Restrict(h, S) == [a \in S |-> h[a]]

TemplateValue(h) == IF IsRef(h, TplAddr) THEN Flat(h, TplAddr) ELSE {}

Record(op, level, stateV, cfgV, secV, mode, mut, r) ==
  [op |-> op, level |-> level, state |-> stateV, cfg |-> cfgV, sec |-> secV,
   mode |-> mode, mut |-> mut, result |-> r.result, reachedCall |-> r.reachedCall,
   calls |-> r.calls, loads |-> r.loads, substCalls |-> r.substCalls,
   tplBefore |-> TemplateValue(heap), cfgBefore |-> Flat(heap, CfgAddr),
   cfgOwnBefore |-> heap[CfgAddr]]

NoResult ==
  [result |-> "none", reachedCall |-> FALSE, calls |-> <<>>, loads |-> <<>>,
   substCalls |-> 0]

Idle ==
  [op |-> "none", level |-> None, state |-> None, cfg |-> None, sec |-> None,
   mode |-> "new", mut |-> NoMut, result |-> "none", reachedCall |-> FALSE,
   calls |-> <<>>, loads |-> <<>>, substCalls |-> 0, tplBefore |-> {},
   cfgBefore |-> {}, cfgOwnBefore |-> EmptyDict]

Init ==
  /\ \/ /\ control \in StructuralDescriptors
        /\ modExposed \in ExposedChoices
        /\ modSig = {}
     \/ /\ control \in DispatchDescriptors
        /\ modExposed \in DispatchExposedChoices
        /\ modSig \in SUBSET OptionalParams
  /\ \E t \in TemplateChoices :
       heap = IF HasArguments(control)
              THEN [a \in DOMAIN BaseHeap \cup {TplAddr, TplNestedAddr} |->
                      IF a = TplAddr THEN t
                      ELSE IF a = TplNestedAddr THEN [y |-> "${k}"]
                      ELSE BaseHeap[a]]
              ELSE BaseHeap
  /\ tpl0 = TemplateValue(heap)
  /\ ncalls = 0
  /\ last = Idle

Validate ==
  /\ last.op = "none"
  /\ LET v == validate_python_control(control)
         r == [NoResult EXCEPT !.result = v.result, !.loads = v.loads]
     IN last' = Record("validate", None, None, None, None, "new", NoMut, r)
  /\ ncalls' = ncalls + 1
  /\ UNCHANGED <<control, modExposed, modSig, heap, tpl0>>

Initialize ==
  /\ last.op = "none"
  /\ \E cfgV \in {None, CfgAddr}, secV \in {None, SecretsRef} :
       LET r == initialize_control(heap, control, cfgV, secV)
       IN /\ last' = Record("initialize", None, None, cfgV, secV, "new", NoMut, r)
          /\ heap' = Restrict(r.heap, DOMAIN heap)
  /\ ncalls' = ncalls + 1
  /\ UNCHANGED <<control, modExposed, modSig, tpl0>>

Cleanup ==
  /\ last.op = "none"
  /\ LET r == cleanup_control(heap, control)
     IN /\ last' = Record("cleanup", None, None, None, None, "new", NoMut, r)
        /\ heap' = Restrict(r.heap, DOMAIN heap)
  /\ ncalls' = ncalls + 1
  /\ UNCHANGED <<control, modExposed, modSig, tpl0>>

Apply ==
  /\ last.op = "none"
  /\ \E level \in CallerLevels, stateV \in {None, StateAddr},
        cfgV \in {None, CfgAddr}, secV \in {None, SecretsRef},
        mode \in SubstModes :
       LET r == apply_python_control(heap, control, level, stateV, cfgV, secV, mode)
       IN /\ r.substCalls = 0 => mode = "new"
          /\ \E mut \in HookMutations(r.heap, r.passed) :
               /\ last' = Record("apply", level, stateV, cfgV, secV, mode, mut, r)
               /\ heap' = Restrict(HookMutate(r.heap, r.passed, mut), DOMAIN heap)
  /\ ncalls' = ncalls + 1
  /\ UNCHANGED <<control, modExposed, modSig, tpl0>>

\* The operation has returned; the caller goes on to its next operation.
Resume ==
  /\ last.op # "none"
  /\ ncalls < MaxCalls
  /\ last' = Idle
  /\ UNCHANGED <<control, modExposed, modSig, heap, tpl0, ncalls>>

Next == Validate \/ Initialize \/ Cleanup \/ Apply \/ Resume

Spec == Init /\ [][Next]_vars

(***************************************************************************)
(* Vocabulary of the properties                                            *)
(***************************************************************************)
HasProviderModule == HasKey(control, "provider") /\ HasKey(control["provider"], "module")

\* provider.module is a non-empty path the loader resolves
ProviderModuleResolves == HasProviderModule /\ control["provider"]["module"] \in Installed

\* provider.module is a non-empty path the loader does not find
ProviderModuleNotFound ==
  /\ HasProviderModule
  /\ control["provider"]["module"] # ""
  /\ control["provider"]["module"] \notin Installed

\* name, provider and a non-empty provider.module are present
StructurallyComplete ==
  HasKey(control, "name") /\ HasProviderModule /\ control["provider"]["module"] # ""

AppliedRecognized == last.op = "apply" /\ last.level \in Levels

\* the hook the latest operation looks for
TargetHook ==
  CASE last.op = "initialize" -> "configure_control"
    [] last.op = "cleanup" -> "cleanup_control"
    [] OTHER -> LevelFuncName(last.level)

Dispatching == last.op \in {"initialize", "cleanup"} \/ AppliedRecognized

HookInvoked == last.calls # <<>>

\* what the hook received under the argument called name
Received(name) == {p \in last.calls[1].kwargs : p[1] = name}

\* every static argument of the provider is a parameter of the hook
StaticArgumentsDeclared ==
  HasArguments(control) => DOMAIN heap[TplAddr] \subseteq SigParameters

ProviderSecrets == control["provider"]["secrets"]

ListedGroups(list) == {i \in 1..Len(list) : list[i] \in DOMAIN SecretsStore}

ListedKeys(list) == UNION {DOMAIN SecretsStore[list[i]] : i \in ListedGroups(list)}

\* the last listed group that holds key k
LastGroupWith(list, k) ==
  list[CHOOSE i \in ListedGroups(list) :
         /\ k \in DOMAIN SecretsStore[list[i]]
         /\ \A j \in ListedGroups(list) : k \in DOMAIN SecretsStore[list[j]] => j <= i]

ExpectedSecrets(list) ==
  IF ListedKeys(list) = {}
  THEN {<<"secrets", "{}">>}
  ELSE {<<"secrets", k, SecretsStore[LastGroupWith(list, k)][k]>> : k \in ListedKeys(list)}

(***************************************************************************)
(* Properties                                                              *)
(***************************************************************************)

\* C1: validate succeeds on every descriptor that has `name`, `provider` and a
\* non-empty, resolvable `provider.module`, with or without a top-level
\* `module` key.
C1_ValidateReadsProviderModule ==
  (last.op = "validate" /\ HasKey(control, "name") /\ ProviderModuleResolves)
    => last.result = "ok"

\* C2: apply with an unrecognized level raises nothing and invokes no hook, for
\* every structurally complete control, whatever its module resolves to or
\* exposes.
C2_UnknownLevelNoOp ==
  (last.op = "apply" /\ last.level \notin Levels /\ StructurallyComplete)
    => (last.result = "ok" /\ ~HookInvoked)

\* C3: when provider.module is not found by the loader, validate fails with
\* InvalidActivity while initialize, cleanup and apply with a recognized level
\* return without raising and without invoking a hook.
C3_UnresolvableModule ==
  (HasKey(control, "name") /\ ProviderModuleNotFound)
    => /\ last.op = "validate" => last.result = "InvalidActivity"
       /\ Dispatching => (last.result = "ok" /\ ~HookInvoked)

\* C4: when the module resolves but does not expose the target hook,
\* initialize, cleanup and apply with a recognized level return without
\* raising, invoke nothing, and apply assembles no arguments (no substitution).
C4_MissingHookNoOp ==
  (Dispatching /\ ProviderModuleResolves /\ TargetHook \notin modExposed)
    => /\ last.result = "ok"
       /\ ~HookInvoked
       /\ ~last.reachedCall
       /\ last.substCalls = 0

C4_Witness ==
  /\ AppliedRecognized
  /\ ProviderModuleResolves
  /\ TargetHook \notin modExposed
  /\ modExposed # {}
  /\ last.cfg # None
  /\ last.result = "ok"

\* C5: validate fails with InvalidControl, without attempting a module load, on
\* every descriptor missing `name` and on every descriptor with `name` but
\* without `provider`.
C5_StructuralDefects ==
  (last.op = "validate" /\ (~HasKey(control, "name") \/ ~HasKey(control, "provider")))
    => (last.result = "InvalidControl" /\ last.loads = <<>>)

C5_Witness ==
  /\ last.op = "validate"
  /\ HasKey(control, "name")
  /\ ~HasKey(control, "provider")
  /\ HasKey(control, "module")
  /\ control["module"] \in Installed
  /\ last.result = "InvalidControl"

\* C6: when the provider lists secret groups and the hook declares `secrets`,
\* the hook receives as `secrets` exactly the union of the listed groups, a
\* later group overriding an earlier one, in place of any `secrets` static
\* argument and without keys of groups that are not listed.
C6_SecretsUnion ==
  (last.op = "apply" /\ HookInvoked /\ HasKey(control["provider"], "secrets")
     /\ "secrets" \in modSig)
    => Received("secrets") = ExpectedSecrets(ProviderSecrets)

C6_Witness ==
  /\ last.op = "apply"
  /\ HookInvoked
  /\ "secrets" \in modSig
  /\ HasKey(control["provider"], "secrets")
  /\ ProviderSecrets = <<"db", "api">>
  /\ <<"secrets", "static">> \in last.tplBefore
  /\ <<"secrets", "user", "y">> \in Received("secrets")

\* C7 as stated: the hook receives a copy of the full configuration and no
\* mutation it performs through that copy changes the caller's configuration.
C7_AnyMutationIsolated ==
  (last.op = "apply" /\ HookInvoked /\ "configuration" \in modSig
     /\ last.mut[1] = "configuration")
    => /\ Received("configuration") = {<<"configuration">> \o p : p \in last.cfgBefore}
       /\ Flat(heap, CfgAddr) = last.cfgBefore

\* C7 amended: the hook receives a copy of the full configuration; the caller's
\* mapping keeps its own entries whatever the hook does to the copy, and keeps
\* its whole value when the hook changes the entries of the copy itself.
C7_ShallowCopyIsolated ==
  (last.op = "apply" /\ HookInvoked /\ "configuration" \in modSig)
    => /\ Received("configuration") = {<<"configuration">> \o p : p \in last.cfgBefore}
       /\ heap[CfgAddr] = last.cfgOwnBefore
       /\ last.mut = <<"configuration", 0>> => Flat(heap, CfgAddr) = last.cfgBefore

C7_Witness ==
  /\ last.op = "apply"
  /\ HookInvoked
  /\ "configuration" \in modSig
  /\ last.mut = <<"configuration", 0>>
  /\ <<"configuration", "grp", "z", "v2">> \in Received("configuration")

\* C8: the provider's static arguments, nested values included, keep the value
\* they had at construction through every sequence of operations, and every
\* apply starts from that value.
C8_TemplateIntegrity ==
  HasArguments(control)
    => /\ TemplateValue(heap) = tpl0
       /\ last.op = "apply" => last.tplBefore = tpl0

C8_Witness ==
  /\ HasArguments(control)
  /\ ncalls = MaxCalls
  /\ last.op = "apply"
  /\ HookInvoked
  /\ last.substCalls = 1
  /\ last.mode = "inplace"
  /\ last.mut = <<"n", 0>>
  /\ <<"x", "v1">> \in last.calls[1].kwargs

\* C9: distinct levels map to distinct hooks, and apply with a recognized
\* level on a module exposing the mapped hook invokes that hook exactly once,
\* with the caller's context, and no other hook.
C9_DispatchExactness ==
  /\ \A l1, l2 \in Levels : _level_mapping[l1] = _level_mapping[l2] => l1 = l2
  /\ (AppliedRecognized /\ ProviderModuleResolves /\ TargetHook \in modExposed
        /\ StaticArgumentsDeclared)
       => /\ Len(last.calls) = 1
          /\ last.calls[1].name = _level_mapping[last.level]
          /\ Received("context") = {<<"context", ContextValue>>}

\* C10: apply with a recognized level on a control whose hook is present
\* reaches the hook call whichever optional inputs are supplied or omitted.
C10_AlwaysReachesCall ==
  (AppliedRecognized /\ ProviderModuleResolves /\ TargetHook \in modExposed)
    => last.reachedCall

====
